---- MODULE Spec2Model ----
(***************************************************************************)
(* Model of kkngsm/wgpu_wrapper: the bind-group builder and the buffer     *)
(* wrappers of buffers.rs, the render state of state.rs and the event loop *)
(* of main.rs.  GPU objects are modelled by the descriptors they are       *)
(* created from; the commands of a frame are modelled by the list of       *)
(* device calls that State::render makes, in program order.                *)
(***************************************************************************)
EXTENDS Integers, Sequences, FiniteSets

VARIABLES
    builder,            \* buffers.rs BindGroup: label, entries, entry_labels, entry_layout
    device_layouts,     \* descriptors handed to Device::create_bind_group_layout
    device_bind_groups, \* descriptors handed to Device::create_bind_group
    index_input,        \* element type and data last given to IndexBuffer::new
    index_buffer,       \* the IndexBuffer it returned
    status,             \* event loop: "running", "exiting" (elwt.exit) or "panicked" (unwrap)
    event,              \* the event last handed to the closure of event_loop.run
    redraw_requested,   \* window.request_redraw() has been called
    size,               \* State.size
    config,             \* State.config (width, height)
    configure_count,    \* calls of Surface::configure
    last_valid,         \* history: last strictly positive size given to resize, else startup size
    trace,              \* device calls of the latest State::render call
    render_result,      \* what the latest State::render call returned
    frames,             \* State::render calls
    acquired,           \* surface images acquired
    submitted,          \* Queue::submit calls
    presented           \* SurfaceTexture::present calls

builderVars == <<builder, device_layouts, device_bind_groups>>
indexVars == <<index_input, index_buffer>>
renderVars == <<size, config, configure_count, last_valid, trace, render_result,
                frames, acquired, submitted, presented>>
appVars == <<status, event, redraw_requested, renderVars>>
vars == <<builderVars, indexVars, appVars>>

\* ---------------------------------------------------------------- bounds
MaxEntries == 3
MaxDeviceCalls == 2
MaxIndexLen == 2
MaxIndexVal == 1
MaxDim == 2
MaxConfigures == 3
MaxFrames == 2

\* ------------------------------------------------------------- vertex.rs
\* Vertex is two [f32; 3]; only its size matters to the buffers.
VertexSize == 24

VERTICES == <<"top_left", "bottom_left", "bottom_right", "top_right">>

INDICES == <<0, 1, 2, 0, 2, 3>>

\* ------------------------------------------------------------ buffers.rs
\* a to_index_format that answers Uint32 for both types
to_index_format_always_u32(T) == "Uint32"

\* FormatDetect::to_index_format for the two implementing types.
to_index_format(T) == IF T = "u32" THEN "Uint32" ELSE "Uint16"

\* bytes of one element, little endian (bytemuck::cast_slice on u16 / u32)
ElemBytes(T, x) ==
    IF T = "u32"
    THEN <<x % 256, (x \div 256) % 256, (x \div 65536) % 256, (x \div 16777216) % 256>>
    ELSE <<x % 256, (x \div 256) % 256>>

RECURSIVE cast_slice(_, _)
cast_slice(T, s) ==
    IF s = <<>> THEN <<>> ELSE ElemBytes(T, Head(s)) \o cast_slice(T, Tail(s))

IndexBuffer_new(T, indices) ==
    [buffer |-> [label |-> "Index Buffer", contents |-> cast_slice(T, indices),
                 usage |-> "INDEX"],
     format |-> to_index_format(T)]

VertexBuffer_new(vertices) ==
    [buffer |-> [label |-> "Vertex Buffer", size |-> Len(vertices) * VertexSize,
                 usage |-> "VERTEX"]]

Buffers_new ==
    [vertex |-> VertexBuffer_new(VERTICES),
     index |-> IndexBuffer_new("u16", INDICES),
     bind_groups |-> <<>>]

\* BindGroupLayoutEntry::to_wgpu
to_wgpu(self, binding) ==
    [binding |-> binding, visibility |-> self.visibility, ty |-> self.ty,
     count |-> self.count]

BindGroup_new(label) ==
    [label |-> label, entries |-> <<>>, entry_labels |-> <<>>, entry_layout |-> <<>>]

\* BindGroup::insert: the entry is pushed first, and the layout entry is then
\* numbered with the length of the entries after that push (the casts to u32
\* here and in bind_group lose nothing at the lengths a Vec can have).
insert(self, label, entry) ==
    LET pushed == Append(self.entries, entry) IN
    [self EXCEPT !.entries = pushed,
                 !.entry_labels = Append(@, label),
                 !.entry_layout = Append(@, to_wgpu(entry.layout, Len(pushed)))]

\* BindGroup::bind_group_layouts: the descriptor given to the device.
bind_group_layouts(self) ==
    [entries |-> self.entry_layout, label |-> <<self.label, "_layout">>]

\* BindGroup::bind_group: the descriptor given to the device (its layout
\* field names an identifier the function does not define; it is left out).
bind_group(self) ==
    [entries |-> [i \in 1..Len(self.entries) |->
                     [binding |-> i - 1, resource |-> self.entries[i].buffer]],
     label |-> self.label]

\* inputs of the builder
BuilderLabels == {"camera", "light"}

EntryLabels == {"a", "b"}

EntryA == [buffer |-> "bufA",
           layout |-> [visibility |-> "VERTEX", ty |-> "Uniform", count |-> "None"]]

EntryB == [buffer |-> "bufB",
           layout |-> [visibility |-> "FRAGMENT", ty |-> "Uniform", count |-> "None"]]

EntryC == [buffer |-> "bufC",
           layout |-> [visibility |-> "FRAGMENT", ty |-> "Storage", count |-> "None"]]

BindGroupEntries == {EntryA, EntryB, EntryC}

Insert ==
    /\ Len(builder.entries) < MaxEntries
    /\ \E l \in EntryLabels, e \in BindGroupEntries : builder' = insert(builder, l, e)
    /\ UNCHANGED <<device_layouts, device_bind_groups, indexVars, appVars>>

BindGroupLayouts ==
    /\ Len(device_layouts) < MaxDeviceCalls
    /\ device_layouts' = Append(device_layouts, bind_group_layouts(builder))
    /\ UNCHANGED <<builder, device_bind_groups, indexVars, appVars>>

BindGroupCreate ==
    /\ Len(device_bind_groups) < MaxDeviceCalls
    /\ device_bind_groups' = Append(device_bind_groups, bind_group(builder))
    /\ UNCHANGED <<builder, device_layouts, indexVars, appVars>>

NextBuilder == Insert \/ BindGroupLayouts \/ BindGroupCreate

\* inputs of IndexBuffer::new
RECURSIVE SeqsUpTo(_, _)
SeqsUpTo(S, n) ==
    IF n = 0 THEN {<<>>}
    ELSE LET shorter == SeqsUpTo(S, n - 1) IN
         shorter \cup {Append(s, x) : s \in shorter, x \in S}

IndexTypes == {"u16", "u32"}

NoBuffer == [buffer |-> "none", format |-> "none"]

NoInput == [T |-> "none", indices |-> <<>>]

IndexBufferNew ==
    /\ \E T \in IndexTypes, indices \in SeqsUpTo(0..MaxIndexVal, MaxIndexLen) :
          /\ index_input' = [T |-> T, indices |-> indices]
          /\ index_buffer' = IndexBuffer_new(T, indices)
    /\ UNCHANGED <<builderVars, appVars>>

\* -------------------------------------------------------------- state.rs
\* results of Surface::get_current_texture
SurfaceErrors == {"Timeout", "Outdated", "Lost", "OutOfMemory"}

AcquireResults == {"Ok"} \cup SurfaceErrors

Op(name, args) == [op |-> name, args |-> args]

NoArgs == [none |-> TRUE]

\* a resize that accepts a size with one positive dimension
resize_either_positive(self, new_size) ==
    IF new_size.width > 0 \/ new_size.height > 0
    THEN [size |-> new_size,
          config |-> [self.config EXCEPT !.width = new_size.width,
                                         !.height = new_size.height],
          configure_count |-> self.configure_count + 1]
    ELSE self

\* State::resize on the fields it touches: self = [size, config, configure_count]
resize(self, new_size) ==
    IF new_size.width > 0 /\ new_size.height > 0
    THEN [size |-> new_size,
          config |-> [self.config EXCEPT !.width = new_size.width,
                                         !.height = new_size.height],
          configure_count |-> self.configure_count + 1]
    ELSE self

\* render pass commands that draw as many indices as the mesh has vertices
RenderPassCommands_draw_vertices ==
    <<Op("set_pipeline", NoArgs),
      Op("set_vertex_buffer", [slot |-> 0, buffer |-> Buffers_new.vertex.buffer]),
      Op("set_index_buffer", [buffer |-> Buffers_new.index.buffer,
                              format |-> Buffers_new.index.format]),
      Op("draw_indexed", [first_index |-> 0, end_index |-> Len(VERTICES),
                          base_vertex |-> 0, first_instance |-> 0, end_instance |-> 1])>>

\* the commands State::render records inside its render pass
RenderPassCommands ==
    <<Op("set_pipeline", NoArgs),
      Op("set_vertex_buffer", [slot |-> 0, buffer |-> Buffers_new.vertex.buffer]),
      Op("set_index_buffer", [buffer |-> Buffers_new.index.buffer,
                              format |-> Buffers_new.index.format]),
      Op("draw_indexed", [first_index |-> 0, end_index |-> Len(INDICES),
                          base_vertex |-> 0, first_instance |-> 0, end_instance |-> 1])>>

\* an end of render that presents the image before the commands are submitted
SubmitAndPresent_present_first ==
    <<Op("present", NoArgs), Op("finish", NoArgs), Op("submit", NoArgs)>>

\* the end of State::render: the encoder is finished, submitted, and the image presented
SubmitAndPresent ==
    <<Op("finish", NoArgs), Op("submit", NoArgs), Op("present", NoArgs)>>

\* State::render: the device calls it makes, in program order, and its result.
\* The ? on get_current_texture returns the error before anything else runs;
\* the render pass ends where its scope closes, before encoder.finish().
render(acquire) ==
    IF acquire # "Ok"
    THEN [trace |-> <<Op("get_current_texture", [result |-> acquire])>>,
          result |-> acquire]
    ELSE [trace |->
            <<Op("get_current_texture", [result |-> "Ok"]),
              Op("create_view", NoArgs),
              Op("create_command_encoder", [label |-> "Render Encoder"]),
              Op("begin_render_pass", [load |-> "Clear(BLACK)", store |-> "Store"])>>
            \o RenderPassCommands
            \o <<Op("end_render_pass", NoArgs)>>
            \o SubmitAndPresent,
          result |-> "Ok"]

CountOp(t, name) == Cardinality({i \in 1..Len(t) : t[i].op = name})

CountAcquired(t) ==
    Cardinality({i \in 1..Len(t) : t[i].op = "get_current_texture"
                                   /\ t[i].args.result = "Ok"})

\* --------------------------------------------------------------- main.rs
WindowId == "window"

OtherWindowId == "other_window"

Sizes == [width : 0..MaxDim, height : 0..MaxDim]

StartupSizes == [width : 1..MaxDim, height : 1..MaxDim]

NoSize == [width |-> 0, height |-> 0]

WE(tag, key, state, sz) == [tag |-> tag, logical_key |-> key, state |-> state, size |-> sz]

WindowEvents ==
    {WE("CloseRequested", "none", "none", NoSize),
     WE("RedrawRequested", "none", "none", NoSize),
     WE("Focused", "none", "none", NoSize)}
    \cup {WE("KeyboardInput", k, s, NoSize) : k \in {"Escape", "Enter"},
                                              s \in {"Pressed", "Released"}}
    \cup {WE("Resized", "none", "none", sz) : sz \in Sizes}

NoWindowEvent == WE("none", "none", "none", NoSize)

Events ==
    {[kind |-> "WindowEvent", window_id |-> w, event |-> e] :
        w \in {WindowId, OtherWindowId}, e \in WindowEvents}
    \cup {[kind |-> k, window_id |-> "none", event |-> NoWindowEvent] :
            k \in {"AboutToWait", "Resumed"}}

NoEvent == [kind |-> "none", window_id |-> "none", event |-> NoWindowEvent]

\* a match without the guard on the window id
Dispatch_any_window(e) ==
    IF e.kind = "WindowEvent"
    THEN IF \/ e.event.tag = "CloseRequested"
            \/ /\ e.event.tag = "KeyboardInput"
               /\ e.event.logical_key = "Escape"
               /\ e.event.state = "Pressed"
         THEN "exit"
         ELSE IF e.event.tag = "Resized" THEN "resize"
         ELSE IF e.event.tag = "RedrawRequested" THEN "render"
         ELSE "none"
    ELSE IF e.kind = "AboutToWait" THEN "request_redraw"
    ELSE "none"

\* the match of the closure given to event_loop.run: which arm an event takes
Dispatch(e) ==
    IF e.kind = "WindowEvent" /\ e.window_id = WindowId
    THEN IF \/ e.event.tag = "CloseRequested"
            \/ /\ e.event.tag = "KeyboardInput"
               /\ e.event.logical_key = "Escape"
               /\ e.event.state = "Pressed"
         THEN "exit"
         ELSE IF e.event.tag = "Resized" THEN "resize"
         ELSE IF e.event.tag = "RedrawRequested" THEN "render"
         ELSE "none"
    ELSE IF e.kind = "AboutToWait" THEN "request_redraw"
    ELSE "none"

\* a handler that drops the result of render instead of unwrapping it
unwrap_ignored(result) == "running"

\* Result::unwrap on the result of render: the loop goes on, or the process panics
unwrap(result) == IF result = "Ok" THEN "running" ELSE "panicked"

CloseOrEscape ==
    /\ status = "running"
    /\ \E e \in Events :
          /\ Dispatch(e) = "exit"
          /\ event' = e
    /\ status' = "exiting"
    /\ UNCHANGED <<redraw_requested, renderVars, builderVars, indexVars>>

Resized ==
    /\ status = "running"
    /\ \E e \in Events :
          /\ Dispatch(e) = "resize"
          /\ LET new_size == e.event.size
                 r == resize([size |-> size, config |-> config,
                              configure_count |-> configure_count], new_size)
             IN /\ r.configure_count <= MaxConfigures
                /\ event' = e
                /\ size' = r.size
                /\ config' = r.config
                /\ configure_count' = r.configure_count
                /\ last_valid' = IF new_size.width > 0 /\ new_size.height > 0
                                 THEN new_size ELSE last_valid
    /\ UNCHANGED <<status, redraw_requested, trace, render_result, frames, acquired,
                   submitted, presented, builderVars, indexVars>>

RedrawRequested ==
    /\ status = "running"
    /\ frames < MaxFrames
    /\ \E e \in Events, acquire \in AcquireResults :
          /\ Dispatch(e) = "render"
          /\ LET r == render(acquire)
             IN /\ event' = e
                /\ trace' = r.trace
                /\ render_result' = r.result
                /\ frames' = frames + 1
                /\ acquired' = acquired + CountAcquired(r.trace)
                /\ submitted' = submitted + CountOp(r.trace, "submit")
                /\ presented' = presented + CountOp(r.trace, "present")
                /\ status' = unwrap(r.result)
    /\ UNCHANGED <<redraw_requested, size, config, configure_count, last_valid,
                   builderVars, indexVars>>

AboutToWait ==
    /\ status = "running"
    /\ \E e \in Events :
          /\ Dispatch(e) = "request_redraw"
          /\ event' = e
    /\ redraw_requested' = TRUE
    /\ UNCHANGED <<status, renderVars, builderVars, indexVars>>

Ignored ==
    /\ status = "running"
    /\ \E e \in Events :
          /\ Dispatch(e) = "none"
          /\ event' = e
    /\ UNCHANGED <<status, redraw_requested, renderVars, builderVars, indexVars>>

NextApp == CloseOrEscape \/ Resized \/ RedrawRequested \/ AboutToWait \/ Ignored

\* --------------------------------------------------------- specifications
\* State::new: the surface is configured once with the window's inner size
\* (a zero-sized configuration is refused by the surface, so startup sizes
\* are positive); Buffers::new holds no bind group.
Init ==
    /\ builder \in {BindGroup_new(l) : l \in BuilderLabels}
    /\ device_layouts = <<>>
    /\ device_bind_groups = <<>>
    /\ index_input = NoInput
    /\ index_buffer = NoBuffer
    /\ status = "running"
    /\ event = NoEvent
    /\ redraw_requested = FALSE
    /\ size \in StartupSizes
    /\ config = [width |-> size.width, height |-> size.height]
    /\ configure_count = 1
    /\ last_valid = size
    /\ trace = <<>>
    /\ render_result = "none"
    /\ frames = 0
    /\ acquired = 0
    /\ submitted = 0
    /\ presented = 0

\* the application: State driven by the event loop
Next == NextApp

Spec == Init /\ [][Next]_vars

\* the bind-group builder used as a library
SpecBuilder == Init /\ [][NextBuilder]_vars

\* IndexBuffer::new on arbitrary index data, and frames drawn with the mesh's buffer
NextIndex == IndexBufferNew \/ RedrawRequested

SpecIndex == Init /\ [][NextIndex]_vars

\* ----------------------------------------------------------------- claims
IsWindowEvent(e, tag) ==
    e.kind = "WindowEvent" /\ e.window_id = WindowId /\ e.event.tag = tag

IsShutdown(e) ==
    \/ IsWindowEvent(e, "CloseRequested")
    \/ /\ IsWindowEvent(e, "KeyboardInput")
       /\ e.event.logical_key = "Escape"
       /\ e.event.state = "Pressed"

Positive(sz) == sz.width > 0 /\ sz.height > 0

Pos(t, name) == CHOOSE i \in 1..Len(t) : t[i].op = name

\* C1: the k-th inserted entry (k from 0) is recorded in the layout entries
\* with binding index k, and describes the k-th inserted entry.
C1_BindingIndexIsInsertionOrder ==
    /\ Len(builder.entry_layout) = Len(builder.entries)
    /\ \A k \in 1..Len(builder.entry_layout) :
          /\ builder.entry_layout[k].binding = k - 1
          /\ builder.entry_layout[k].ty = builder.entries[k].layout.ty

\* C2: the layout and the binding set built from the same builder have the
\* same number of entries and the same sequence of binding indices.
C2_LayoutAndBindingSetAgree ==
    /\ Len(bind_group_layouts(builder).entries) = Len(bind_group(builder).entries)
    /\ \A i \in 1..Len(device_layouts), j \in 1..Len(device_bind_groups) :
          Len(device_layouts[i].entries) = Len(device_bind_groups[j].entries)
          => \A p \in 1..Len(device_layouts[i].entries) :
                device_layouts[i].entries[p].binding
                = device_bind_groups[j].entries[p].binding

\* C3: finalizing a builder that has had no insert is rejected: no layout and
\* no binding set with zero entries is ever created.
C3_EmptyFinalizeRejected ==
    /\ \A i \in 1..Len(device_layouts) : Len(device_layouts[i].entries) > 0
    /\ \A j \in 1..Len(device_bind_groups) : Len(device_bind_groups[j].entries) > 0

\* C4: a builder is finalized at most once: it never creates a second layout
\* or a second binding set.
C4_FinalizeAtMostOnce ==
    /\ Len(device_layouts) <= 1
    /\ Len(device_bind_groups) <= 1

\* C5: a resize with a zero width or height changes neither the stored size nor
\* the configuration and does not configure the surface; a resize with positive
\* width and height stores the new size, sets the configuration to it and
\* configures the surface once; so size and configuration always equal the last
\* strictly positive size, or the startup size.
C5_Resize ==
    /\ [](/\ size = last_valid
          /\ config.width = last_valid.width
          /\ config.height = last_valid.height)
    /\ [][IsWindowEvent(event', "Resized") =>
            LET n == event'.event.size IN
            IF n.width = 0 \/ n.height = 0
            THEN UNCHANGED <<size, config, configure_count>>
            ELSE /\ size' = n
                 /\ config'.width = n.width
                 /\ config'.height = n.height
                 /\ configure_count' = configure_count + 1]_vars

C5_Witness ==
    /\ IsWindowEvent(event, "Resized")
    /\ event.event.size.width = 0
    /\ event.event.size.height > 0
    /\ configure_count = 3
    /\ size = last_valid

\* C6: a render call whose surface image was acquired issues exactly one
\* indexed draw, of indices 0..6, base vertex 0 and one instance, and returns Ok.
C6_OneIndexedDraw ==
    (trace # <<>> /\ trace[1] = Op("get_current_texture", [result |-> "Ok"]))
    => /\ render_result = "Ok"
       /\ Len(INDICES) = 6
       /\ CountOp(trace, "draw_indexed") = 1
       /\ CountOp(trace, "draw") = 0
       /\ trace[Pos(trace, "draw_indexed")].args
          = [first_index |-> 0, end_index |-> 6, base_vertex |-> 0,
             first_instance |-> 0, end_instance |-> 1]

C6_Witness ==
    /\ render_result = "Ok"
    /\ CountOp(trace, "draw_indexed") = 1
    /\ frames = 1

\* C7: a successful frame acquires the image, opens the recording scope, binds
\* pipeline, vertex buffer, index buffer and the bind groups of the buffers,
\* draws, closes the scope, submits and presents, each once and in this order;
\* every acquired image is submitted and presented exactly once.
C7_FrameOrder ==
    /\ acquired = submitted
    /\ acquired = presented
    /\ render_result = "Ok" =>
          /\ \A n \in {"get_current_texture", "begin_render_pass", "set_pipeline",
                       "set_vertex_buffer", "set_index_buffer", "draw_indexed",
                       "end_render_pass", "submit", "present"} :
                CountOp(trace, n) = 1
          /\ CountOp(trace, "set_bind_group") = Len(Buffers_new.bind_groups)
          /\ Pos(trace, "get_current_texture") < Pos(trace, "begin_render_pass")
          /\ \A n \in {"set_pipeline", "set_vertex_buffer", "set_index_buffer"} :
                /\ Pos(trace, "begin_render_pass") < Pos(trace, n)
                /\ Pos(trace, n) < Pos(trace, "draw_indexed")
          /\ Pos(trace, "draw_indexed") < Pos(trace, "end_render_pass")
          /\ Pos(trace, "end_render_pass") < Pos(trace, "submit")
          /\ Pos(trace, "submit") < Pos(trace, "present")

C7_Witness ==
    /\ render_result = "Ok"
    /\ frames = 2
    /\ presented = 2

\* C8: a failed acquisition is fatal: render returns the error having recorded,
\* submitted and presented nothing, the surface is not reconfigured, and the
\* loop handles no further event.
C8_AcquireFailureIsFatal ==
    /\ [][(/\ frames' = frames + 1
           /\ trace'[1].op = "get_current_texture"
           /\ trace'[1].args.result \in SurfaceErrors)
          => /\ render_result' = trace'[1].args.result
             /\ Len(trace') = 1
             /\ submitted' = submitted
             /\ presented' = presented
             /\ configure_count' = configure_count
             /\ status' = "panicked"]_vars
    /\ [][status = "panicked" => UNCHANGED vars]_vars

C8_Witness ==
    /\ status = "panicked"
    /\ render_result \in SurfaceErrors
    /\ frames = 2
    /\ presented = 1

C10_IndexFormat ==
    /\ index_input.T = "u16" => index_buffer.format = "Uint16"
    /\ index_input.T = "u32" => index_buffer.format = "Uint32"
    /\ \A i \in 1..Len(trace) :
          trace[i].op = "set_index_buffer" => trace[i].args.format = "Uint16"

C10_Witness ==
    /\ index_input.T = "u32"
    /\ Len(index_input.indices) = 1
    /\ index_buffer.format = "Uint32"
    /\ CountOp(trace, "set_index_buffer") = 1

====
